---- MODULE Spec2Model ----
(***************************************************************************)
(* The API gateway of Use_Case_III: the middleware pipeline                *)
(* (authentication -> rate limiting -> billing -> handler) and the store   *)
(* it shares between requests (User, APIKey, APIUsage, TokenTransaction).  *)
(*                                                                         *)
(* Granularity: one action per store operation of a request.  Every       *)
(* request opens its own Session(engine) on the shared SQLite file         *)
(* (database.py), so the store is the only state requests share.  A        *)
(* SELECT and the later UPDATE/commit of the same function are separate    *)
(* store operations: the code takes no row lock (no with_for_update) and   *)
(* the commit writes the values computed in Python from the earlier read.  *)
(* Purchases run in the worker thread pool (sync def endpoint) and several *)
(* server processes may share the file, so other requests' operations may  *)
(* fall between the two.                                                   *)
(*                                                                         *)
(* Amounts are whole tokens (the cost table is 1.0 per item), time is in   *)
(* seconds.  Rows of the two ledgers carry an extra field rid naming the   *)
(* request that wrote them; it is not a column of the tables and no action *)
(* reads it.                                                               *)
(***************************************************************************)
EXTENDS Integers, Sequences, FiniteSets, TLC

\* ------------------------------------------------------------------ bounds
MaxReqs      == 2     \* concurrent requests of specification Spec
MaxSeqReqs   == 3     \* requests issued one after another in SpecSeq
MaxPurchases == 1     \* purchases in SpecPay
MaxBatch     == 2     \* longest data array of a request body
MaxAmount    == 2     \* largest purchase amount
InitBalance  == 2     \* token_balance of a user in the initial store
MaxLimit     == 3     \* largest requests_per_minute tried in SpecSeq
TickLen      == 45    \* seconds the clock advances in one Tick
MaxTicks     == 2     \* the clock stops after so many ticks
KeyExpiry    == 30    \* expires_at of the expiring keys of SpecAuth

\* --------------------------------------------------------------- constants
MINUTE == 60
HOUR   == 3600
DAY    == 86400
DefaultPerHour == 100
DefaultPerDay  == 1000
MinPasswordLen == 10
MaxStatDays == 365

None == "None"        \* Python None in a string-valued place
Null == 0 - 1         \* Python None in a number-valued place

api_key_secret == "demo-secret-key-change-in-production"

Users      == {"u1", "u2"}
KeyIds     == 1 .. 3
Plaintexts == {"pk_a", "pk_b", "pk_c", "pk_x"}
AllReqs    == 1 .. MaxSeqReqs
Reqs       == 1 .. MaxReqs
Purchases  == 1 .. MaxPurchases
Outcomes   == {"2xx", "non2xx", "raise"}
BillingKeys == {1, 3}      \* the principals of Spec: one key of each user

VARIABLES
    now,        \* datetime.utcnow(), in seconds
    users,      \* table User, by user_id
    keys,       \* table APIKey, by id
    api_usage,  \* table APIUsage, in id order
    token_tx,   \* table TokenTransaction, in id order
    req,        \* per request: position in the pipeline and request.state
    pur,        \* per purchase: position in add_tokens
    rev,        \* the <<username, key name>> pairs for which revoke_api_key returned True
    stat,       \* the last value returned by get_rate_limit_status, with its arguments
    accounts,   \* table User, in id order: the columns username, email, hashed_password
    reg,        \* per registration call: position in register_user and the answer
    login       \* per login or generate-key call: the credentials and the answer

vars == <<now, users, keys, api_usage, token_tx, req, pur, rev, stat, accounts, reg, login>>

\* ------------------------------------------------------------- auth service
hash_api_key(api_key) == <<"sha256", api_key, api_key_secret>>

\* variant: the lookup does not filter on is_active
KeyLookup_AnyState(K, h) == {k \in DOMAIN K : K[k].hashed_key = h}

KeyLookup(K, h) == {k \in DOMAIN K : K[k].hashed_key = h /\ K[k].is_active}

\* variant: the comparison with the clock the wrong way round
KeyExpired_Flipped(rec, t) == rec.expires_at # Null /\ rec.expires_at > t

KeyExpired(rec, t) == rec.expires_at # Null /\ rec.expires_at < t

\* variant: the owner's is_active is not looked at
UserUsable_IgnoresActive(U, uid) == uid \in DOMAIN U

UserUsable(U, uid) == uid \in DOMAIN U /\ U[uid].is_active

\* variant: an expired key is refused but the deactivation is not committed
validate_api_key_NoDeactivate(K, U, api_key, t) ==
    LET found == KeyLookup(K, hash_api_key(api_key))
    IN  IF found = {}
        THEN [ret |-> None, keys |-> K]
        ELSE LET k == CHOOSE x \in found : TRUE
             IN  IF KeyExpired(K[k], t)
                 THEN [ret |-> None, keys |-> K]
                 ELSE IF ~UserUsable(U, K[k].user_id)
                      THEN [ret |-> None, keys |-> K]
                      ELSE [ret |-> K[k].user_id,
                            keys |-> [K EXCEPT ![k].last_used = t]]

\* The value returned and the APIKey table as committed.
validate_api_key(K, U, api_key, t) ==
    LET found == KeyLookup(K, hash_api_key(api_key))
    IN  IF found = {}
        THEN [ret |-> None, keys |-> K]
        ELSE LET k == CHOOSE x \in found : TRUE
             IN  IF KeyExpired(K[k], t)
                 THEN [ret |-> None, keys |-> [K EXCEPT ![k].is_active = FALSE]]
                 ELSE IF ~UserUsable(U, K[k].user_id)
                      THEN [ret |-> None, keys |-> K]
                      ELSE [ret |-> K[k].user_id,
                            keys |-> [K EXCEPT ![k].last_used = t]]

\* _authenticate_request: the id of the key record with that hash
KeyIdOf(K, api_key) ==
    LET found == {k \in DOMAIN K : K[k].hashed_key = hash_api_key(api_key)}
    IN  IF found = {} THEN Null ELSE CHOOSE x \in found : TRUE

\* ------------------------------------------------------- rate limit service
Truthy(v) == v # Null /\ v # 0

\* variant: failed rows are counted too
get_request_count_AnyOutcome(A, user_id, api_key_id, since) ==
    Cardinality({i \in DOMAIN A :
        /\ A[i].user_id = user_id
        /\ A[i].timestamp >= since
        /\ (Truthy(api_key_id) => A[i].api_key_id = api_key_id)})

\* variant: rows of any age are counted
get_request_count_AllTime(A, user_id, api_key_id, since) ==
    Cardinality({i \in DOMAIN A :
        /\ A[i].user_id = user_id
        /\ A[i].success
        /\ (Truthy(api_key_id) => A[i].api_key_id = api_key_id)})

get_request_count(A, user_id, api_key_id, since) ==
    Cardinality({i \in DOMAIN A :
        /\ A[i].user_id = user_id
        /\ A[i].timestamp >= since
        /\ A[i].success
        /\ (Truthy(api_key_id) => A[i].api_key_id = api_key_id)})

WindowNames == <<"minute", "hour", "day">>

Duration(w) == IF w = "minute" THEN MINUTE ELSE IF w = "hour" THEN HOUR ELSE DAY

LimitField(rec, w) ==
    IF w = "minute" THEN rec.requests_per_minute
    ELSE IF w = "hour" THEN rec.requests_per_hour ELSE rec.requests_per_day

WindowLimit(U, K, user_id, api_key_id, w) ==
    IF Truthy(api_key_id) /\ api_key_id \in DOMAIN K
          /\ Truthy(LimitField(K[api_key_id], w))
    THEN LimitField(K[api_key_id], w)
    ELSE LimitField(U[user_id], w)

\* variant: a window denies only when its count exceeds the limit
check_rate_limit_Lenient(U, K, A, user_id, api_key_id, t) ==
    IF user_id \notin DOMAIN U
    THEN [allowed |-> FALSE, limit_exceeded |-> "unknown", current_count |-> 0, limit |-> 0]
    ELSE LET cnt(w) == get_request_count(A, user_id, api_key_id, t - Duration(w))
             lim(w) == WindowLimit(U, K, user_id, api_key_id, w)
             over   == {i \in 1 .. 3 : cnt(WindowNames[i]) > lim(WindowNames[i])}
         IN  IF over = {}
             THEN [allowed |-> TRUE, limit_exceeded |-> "none", current_count |-> 0, limit |-> 0]
             ELSE LET i == CHOOSE x \in over : \A y \in over : x <= y
                      w == WindowNames[i]
                  IN  [allowed |-> FALSE, limit_exceeded |-> w,
                       current_count |-> cnt(w), limit |-> lim(w)]

check_rate_limit(U, K, A, user_id, api_key_id, t) ==
    IF user_id \notin DOMAIN U
    THEN [allowed |-> FALSE, limit_exceeded |-> "unknown", current_count |-> 0, limit |-> 0]
    ELSE LET cnt(w) == get_request_count(A, user_id, api_key_id, t - Duration(w))
             lim(w) == WindowLimit(U, K, user_id, api_key_id, w)
             over   == {i \in 1 .. 3 : cnt(WindowNames[i]) >= lim(WindowNames[i])}
         IN  IF over = {}
             THEN [allowed |-> TRUE, limit_exceeded |-> "none", current_count |-> 0, limit |-> 0]
             ELSE LET i == CHOOSE x \in over : \A y \in over : x <= y
                      w == WindowNames[i]
                  IN  [allowed |-> FALSE, limit_exceeded |-> w,
                       current_count |-> cnt(w), limit |-> lim(w)]

Max(a, b) == IF a >= b THEN a ELSE b

WindowSet == {WindowNames[i] : i \in 1 .. 3}

get_rate_limit_status(U, K, A, user_id, api_key_id, t) ==
    IF user_id \notin DOMAIN U
    THEN [error |-> "User not found"]
    ELSE LET lim(w) == WindowLimit(U, K, user_id, api_key_id, w)
             cnt(w) == get_request_count(A, user_id, api_key_id, t - Duration(w))
         IN  [limits        |-> [w \in WindowSet |-> lim(w)],
              current_usage |-> [w \in WindowSet |-> cnt(w)],
              remaining     |-> [w \in WindowSet |-> Max(0, lim(w) - cnt(w))]]

\* ---------------------------------------------------------- billing service
\* variant: a balance equal to the cost is refused
check_sufficient_balance_Strict(U, user_id, required_tokens) ==
    user_id \in DOMAIN U /\ U[user_id].token_balance > required_tokens

check_sufficient_balance(U, user_id, required_tokens) ==
    user_id \in DOMAIN U /\ U[user_id].token_balance >= required_tokens

\* billing middleware cost table: 1.0 per item of the body's data array
BaseCost == 1

calculate_endpoint_cost(n) == BaseCost * n

\* the credit scoring gateway's cost of POST /api/credit-scores with n items
\* of data: the unit cost for each item
UnitCost == 1

credit_scores_cost(n) == UnitCost * n

UsageRow(r, user_id, api_key_id, tokens, ok, err, t) ==
    [rid |-> r, user_id |-> user_id, api_key_id |-> api_key_id,
     tokens_consumed |-> tokens, success |-> ok, error_message |-> err,
     timestamp |-> t]

\* variant: the row stores the size of the movement without its sign
TxRow_Unsigned(r, user_id, type, amount, prev, new, t, reference_id) ==
    [rid |-> r, user_id |-> user_id, transaction_type |-> type,
     amount |-> IF amount < 0 THEN 0 - amount ELSE amount,
     previous_balance |-> prev, new_balance |-> new, timestamp |-> t,
     reference_id |-> reference_id]

TxRow(r, user_id, type, amount, prev, new, t, reference_id) ==
    [rid |-> r, user_id |-> user_id, transaction_type |-> type, amount |-> amount,
     previous_balance |-> prev, new_balance |-> new, timestamp |-> t,
     reference_id |-> reference_id]

\* consume_tokens: f"{api_key_id}_{endpoint}_{isoformat()}"
usage_reference(api_key_id, t) == <<api_key_id, "endpoint", t>>

\* purchase_tokens: f"demo_txn_{user_id}_{int(timestamp())}"
demo_transaction_id(user_id, t) == <<"demo_txn", user_id, t>>

\* the reference of a row written by a call that hands no reference over
NoReference == <<>>

\* ------------------------------------------------------------ initial store
Regs   == {1, 2}     \* registration calls
Logins == {1, 2}     \* login and generate-key calls

IdleReg == [pc |-> "idle", username |-> None, email |-> None, password |-> None, status |-> 0]

IdleLogin ==
    [pc |-> "idle", route |-> None, username |-> None, password |-> None,
     ret |-> None, status |-> 0, detail |-> None, api_key |-> None]

\* a request without an Authorization header
NoAuthorization == [present |-> FALSE, scheme |-> None, param |-> None]

IdleReq ==
    [pc |-> "idle", bearer |-> None, n |-> 0, user_id |-> None, api_key_id |-> Null,
     token_cost |-> 0, outcome |-> None, read_balance |-> Null, read_used |-> Null,
     success |-> FALSE, new_balance |-> Null, status |-> 0,
     path |-> <<>>, authorization |-> NoAuthorization,
     propagated |-> FALSE, detail |-> None, error |-> None]

\* no status has been read: the returned value is the empty tuple
NoStatus == [user_id |-> None, api_key_id |-> Null, at |-> 0, ret |-> <<>>]

IdlePur ==
    [pc |-> "idle", user_id |-> None, amount |-> 0,
     read_balance |-> Null, read_purchased |-> Null, transaction_id |-> NoReference]

NewUser(rpm) ==
    [is_active |-> TRUE, token_balance |-> InitBalance,
     total_tokens_purchased |-> InitBalance, total_tokens_used |-> 0,
     requests_per_minute |-> rpm, requests_per_hour |-> DefaultPerHour,
     requests_per_day |-> DefaultPerDay]

\* auth router: the name a key gets when the request gives none
DefaultKeyName == "Default API Key"

\* generate_api_key: the key inherits its user's limits
NewKey(api_key, user_id, U, expires_at) ==
    [hashed_key |-> hash_api_key(api_key), user_id |-> user_id,
     name |-> DefaultKeyName, expires_at |-> expires_at, is_active |-> TRUE, last_used |-> Null,
     requests_per_minute |-> U[user_id].requests_per_minute,
     requests_per_hour |-> U[user_id].requests_per_hour,
     requests_per_day |-> U[user_id].requests_per_day]

InitStore(rpm) ==
    /\ now = 0
    /\ users = [u \in Users |-> NewUser(rpm)]
    /\ keys = (1 :> NewKey("pk_a", "u1", users, Null)
            @@ 2 :> NewKey("pk_b", "u1", users, Null)
            @@ 3 :> NewKey("pk_c", "u2", users, Null))
    /\ api_usage = <<>>
    /\ token_tx = <<>>
    /\ req = [r \in AllReqs |-> IdleReq]
    /\ pur = [p \in Purchases |-> IdlePur]
    /\ rev = {}
    /\ stat = NoStatus
    /\ accounts = <<>>
    /\ reg = [g \in Regs |-> IdleReg]
    /\ login = [l \in Logins |-> IdleLogin]

Init == InitStore(MaxLimit)

\* ------------------------------------------------------------------- clock
Tick ==
    /\ now + TickLen <= MaxTicks * TickLen
    /\ now' = now + TickLen
    /\ UNCHANGED <<users, keys, api_usage, token_tx, req, pur, rev, stat, accounts, reg, login>>

\* ------------------------------------------------- authentication middleware
\* AuthenticationMiddleware.dispatch up to call_next, for a request that
\* presents Bearer api_key and a body whose data array has n items.
AuthStage(r, api_key, n) ==
    /\ req[r].pc = "idle"
    /\ LET v == validate_api_key(keys, users, api_key, now)
       IN  /\ keys' = v.keys
           /\ req' = [req EXCEPT ![r] =
                 IF v.ret = None
                 THEN [@ EXCEPT !.pc = "done", !.bearer = api_key, !.n = n, !.status = 401]
                 ELSE [@ EXCEPT !.pc = "rate", !.bearer = api_key, !.n = n,
                                !.user_id = v.ret,
                                !.api_key_id = KeyIdOf(v.keys, api_key)]]
    /\ UNCHANGED <<now, users, api_usage, token_tx, pur, rev, stat, accounts, reg, login>>

\* ------------------------------------------------------------- registration
\* bcrypt: the hash keeps what checkpw needs to recognise the password
hash_password(password) == <<"bcrypt", password>>

verify_password(password, hashed_password) == hashed_password = hash_password(password)

RegUsernames == {"ann", "bob"}
RegEmails    == {"ann@x.org", "bob@x.org", "nomail"}
RegPasswords == {"long-enough-pw", "short"}

PasswordLen(password) == IF password = "short" THEN 5 ELSE 14

HasAt(email) == email # "nomail"

UsernameTaken(username) == \E i \in DOMAIN accounts : accounts[i].username = username

EmailTaken(email) == \E i \in DOMAIN accounts : accounts[i].email = email

\* auth router register_user, lines 70-82, and register_user of the service,
\* lines 54-62: the validation and the two existence checks
RegisterCheck(g, username, email, password) ==
    /\ reg[g].pc = "idle"
    /\ LET call == [reg[g] EXCEPT !.username = username, !.email = email,
                                  !.password = password]
       IN  reg' = [reg EXCEPT ![g] =
                 IF PasswordLen(password) < MinPasswordLen \/ ~HasAt(email)
                 THEN [call EXCEPT !.pc = "done", !.status = 400]
                 ELSE IF UsernameTaken(username) \/ EmailTaken(email)
                 THEN [call EXCEPT !.pc = "done", !.status = 409]
                 ELSE [call EXCEPT !.pc = "insert"]]
    /\ UNCHANGED <<now, users, keys, api_usage, token_tx, req, pur, rev, stat,
                   accounts, login>>

\* register_user of the service, lines 64-87: the insert and its commit; the
\* unique indexes on username and email (models.py, lines 56-57) refuse a
\* second row, the IntegrityError is caught nowhere and the answer is 500
RegisterInsert(g) ==
    /\ reg[g].pc = "insert"
    /\ IF UsernameTaken(reg[g].username) \/ EmailTaken(reg[g].email)
       THEN /\ reg' = [reg EXCEPT ![g].pc = "done", ![g].status = 500]
            /\ UNCHANGED accounts
       ELSE /\ accounts' = Append(accounts,
                  [username |-> reg[g].username, email |-> reg[g].email,
                   hashed_password |-> hash_password(reg[g].password),
                   is_active |-> TRUE])
            /\ reg' = [reg EXCEPT ![g].pc = "done", ![g].status = 200]
    /\ UNCHANGED <<now, users, keys, api_usage, token_tx, req, pur, rev, stat, login>>

\* ------------------------------------------------- login and key generation
\* authenticate_user: the LoginResponse (here its username) or None
authenticate_user(A, username, password) ==
    LET found == {i \in DOMAIN A : A[i].username = username}
    IN  IF found = {} THEN None
        ELSE LET i == CHOOSE x \in found : \A y \in found : x <= y
             IN  IF ~A[i].is_active THEN None
                 ELSE IF ~verify_password(password, A[i].hashed_password) THEN None
                 ELSE username

InvalidCredentials == "Invalid username or password"

\* what the two routes answer to a value returned by authenticate_user
AuthAnswer(ret) ==
    IF ret = None THEN [status |-> 401, detail |-> InvalidCredentials]
    ELSE [status |-> 200, detail |-> "ok"]

\* variant: an unknown username is answered 404
Login_TellUnknown(l, username, password) ==
    /\ login[l].pc = "idle"
    /\ LET ret == authenticate_user(accounts, username, password)
           known == \E i \in DOMAIN accounts : accounts[i].username = username
       IN  login' = [login EXCEPT ![l] =
                 [pc |-> "done", route |-> "login", username |-> username,
                  password |-> password, ret |-> ret, api_key |-> None,
                  status |-> IF known THEN AuthAnswer(ret).status ELSE 404,
                  detail |-> IF known THEN AuthAnswer(ret).detail ELSE "Unknown user"]]
    /\ UNCHANGED <<now, users, keys, api_usage, token_tx, req, pur, rev, stat,
                   accounts, reg>>

\* auth router login, lines 92-108
Login(l, username, password) ==
    /\ login[l].pc = "idle"
    /\ LET ret == authenticate_user(accounts, username, password)
       IN  login' = [login EXCEPT ![l] =
                 [pc |-> "done", route |-> "login", username |-> username,
                  password |-> password, ret |-> ret, api_key |-> None,
                  status |-> AuthAnswer(ret).status, detail |-> AuthAnswer(ret).detail]]
    /\ UNCHANGED <<now, users, keys, api_usage, token_tx, req, pur, rev, stat,
                   accounts, reg>>

\* the plaintext of the key stored under a new id
\* _generate_secure_api_key: a fresh random key for each row; the keys minted
\* after the seeded rows, in the order of their ids
MintedKeys == <<"pk_m1", "pk_m2">>

GeneratedKey(id) == MintedKeys[id - Cardinality(KeyIds)]

\* every key a client can present: seeded, unknown, minted
AllPlaintexts == Plaintexts \cup {MintedKeys[i] : i \in DOMAIN MintedKeys}

KeyTTL == 30 * DAY

\* variant: the row also keeps the key itself, as the name of the row
generate_api_key_KeepsKey(K, U, username, name, t) ==
    IF username \notin DOMAIN U \/ ~U[username].is_active
    THEN [ret |-> None, api_key |-> None, keys |-> K]
    ELSE LET id == Cardinality(DOMAIN K) + 1
         IN  [ret |-> name, api_key |-> GeneratedKey(id),
              keys |-> K @@ (id :> [NewKey(GeneratedKey(id), username, U, t + KeyTTL)
                                       EXCEPT !.name = GeneratedKey(id)])]

\* generate_api_key: whether a response is returned, the plain key in it,
\* and the key table after
generate_api_key(K, U, username, name, t) ==
    IF username \notin DOMAIN U \/ ~U[username].is_active
    THEN [ret |-> None, api_key |-> None, keys |-> K]
    ELSE LET id == Cardinality(DOMAIN K) + 1
         IN  [ret |-> name, api_key |-> GeneratedKey(id),
              keys |-> K @@ (id :> [NewKey(GeneratedKey(id), username, U, t + KeyTTL)
                                       EXCEPT !.name = name])]

\* auth router create_api_key_with_credentials, lines 110-155
CreateKey(l, username, password, name) ==
    /\ login[l].pc = "idle"
    /\ LET call == [login[l] EXCEPT !.pc = "done", !.route = "generate-key",
                                    !.username = username, !.password = password]
           ret == authenticate_user(accounts, username, password)
           made == generate_api_key(keys, users, username, name, now)
       IN  IF username = "" \/ password = ""
           THEN /\ login' = [login EXCEPT ![l] =
                      [call EXCEPT !.ret = "not called", !.status = 400,
                                   !.detail = "Username and password are required"]]
                /\ UNCHANGED keys
           ELSE IF AuthAnswer(ret).status # 200
           THEN /\ login' = [login EXCEPT ![l] =
                      [call EXCEPT !.ret = ret, !.status = AuthAnswer(ret).status,
                                   !.detail = AuthAnswer(ret).detail]]
                /\ UNCHANGED keys
           ELSE IF made.ret = None
           THEN /\ login' = [login EXCEPT ![l] =
                      [call EXCEPT !.ret = ret, !.status = 500,
                                   !.detail = "Failed to generate API key"]]
                /\ UNCHANGED keys
           ELSE /\ login' = [login EXCEPT ![l] =
                      [call EXCEPT !.ret = ret, !.status = 200, !.detail = "ok",
                                   !.api_key = made.api_key]]
                /\ keys' = made.keys
    /\ UNCHANGED <<now, users, api_usage, token_tx, req, pur, rev, stat, accounts, reg>>

\* A path is the sequence of the pieces it is cut into at the ends of the
\* configured prefixes; str.startswith is then the prefix order of sequences.
StartsWith(path, prefix) ==
    Len(prefix) <= Len(path) /\ SubSeq(path, 1, Len(prefix)) = prefix

\* main.py, _configure_middleware: AuthenticationMiddleware
AuthProtectedPaths == {<<"/api/">>, <<"/billing/">>}
AuthExcludedPaths ==
    {<<"/auth/", "register">>, <<"/auth/", "login">>,
     <<"/docs">>, <<"/redoc">>, <<"/openapi.json">>}

requires_authentication(path) ==
    /\ ~\E e \in AuthExcludedPaths : StartsWith(path, e)
    /\ \E q \in AuthProtectedPaths : StartsWith(path, q)

Schemes == {"Bearer", "bearer", "Basic"}

lower(scheme) == IF scheme \in {"Bearer", "bearer"} THEN "bearer" ELSE "basic"

\* variant: any scheme is taken as a bearer credential
extract_api_key_AnyScheme(authorization) ==
    IF ~authorization.present THEN None ELSE authorization.param

\* _extract_api_key: None without a header or with another scheme
extract_api_key(authorization) ==
    IF ~authorization.present THEN None
    ELSE IF lower(authorization.scheme) # "bearer" THEN None
    ELSE authorization.param

\* AuthenticationMiddleware.dispatch up to call_next, for any path and any
\* Authorization header; a path that needs no authentication goes on to the
\* route ("route") with nothing attached to the request
AuthDispatch(r, path, authorization) ==
    /\ req[r].pc = "idle"
    /\ \A q \in 1 .. r - 1 : req[q].pc # "idle"
    /\ LET api_key == extract_api_key(authorization)
           v == validate_api_key(keys, users, api_key, now)
           seen == [req[r] EXCEPT !.path = path, !.authorization = authorization]
       IN  IF ~requires_authentication(path)
           THEN /\ req' = [req EXCEPT ![r] = [seen EXCEPT !.pc = "route"]]
                /\ UNCHANGED keys
           ELSE IF api_key = None \/ api_key = ""
           THEN /\ req' = [req EXCEPT ![r] = [seen EXCEPT !.pc = "done", !.status = 401]]
                /\ UNCHANGED keys
           ELSE /\ keys' = v.keys
                /\ req' = [req EXCEPT ![r] =
                      IF v.ret = None
                      THEN [seen EXCEPT !.pc = "done", !.bearer = api_key, !.status = 401]
                      ELSE [seen EXCEPT !.pc = "rate", !.bearer = api_key, !.n = 1,
                                        !.user_id = v.ret,
                                        !.api_key_id = KeyIdOf(v.keys, api_key)]]
    /\ UNCHANGED <<now, users, api_usage, token_tx, pur, rev, stat, accounts, reg, login>>

\* ---------------------------------------------------- rate limit middleware
\* variant: the refusal is noted but the request is passed on
RateLimitStage_PassOn(r) ==
    /\ req[r].pc = "rate"
    /\ LET res == check_rate_limit(users, keys, api_usage,
                                   req[r].user_id, req[r].api_key_id, now)
       IN  req' = [req EXCEPT ![r] =
                 IF res.allowed
                 THEN [@ EXCEPT !.pc = "preflight"]
                 ELSE [@ EXCEPT !.pc = "preflight", !.status = 429]]
    /\ UNCHANGED <<now, users, keys, api_usage, token_tx, pur, rev, stat, accounts, reg, login>>

RateLimitStage(r) ==
    /\ req[r].pc = "rate"
    /\ LET res == check_rate_limit(users, keys, api_usage,
                                   req[r].user_id, req[r].api_key_id, now)
       IN  req' = [req EXCEPT ![r] =
                 IF res.allowed
                 THEN [@ EXCEPT !.pc = "preflight"]
                 ELSE [@ EXCEPT !.pc = "done", !.status = 429]]
    /\ UNCHANGED <<now, users, keys, api_usage, token_tx, pur, rev, stat, accounts, reg, login>>

\* ------------------------------------------------------- billing middleware
\* dispatch, lines 100-132: cost of the request and the preflight balance check
PreflightAt(r, user_id, api_key_id, n, cost) ==
    req' = [req EXCEPT ![r] =
        IF check_sufficient_balance(users, user_id, cost)
        THEN [@ EXCEPT !.pc = "handler", !.n = n, !.user_id = user_id,
                       !.api_key_id = api_key_id, !.token_cost = cost]
        ELSE [@ EXCEPT !.pc = "done", !.n = n, !.user_id = user_id,
                       !.api_key_id = api_key_id, !.token_cost = cost,
                       !.status = 402]]

PreflightCheck(r, user_id, api_key_id, n) ==
    PreflightAt(r, user_id, api_key_id, n, calculate_endpoint_cost(n))

\* the billing stage of a request that came through the two outer stages
Preflight(r) ==
    /\ req[r].pc = "preflight"
    /\ PreflightCheck(r, req[r].user_id, req[r].api_key_id, req[r].n)
    /\ UNCHANGED <<now, users, keys, api_usage, token_tx, pur, rev, stat, accounts, reg, login>>

\* BillingMiddleware.dispatch entered with the principal (key k of the store)
\* already on request.state; requests are taken up in the order of their
\* numbers
BillingDispatch(r, k, n) ==
    /\ req[r].pc = "idle"
    /\ \A q \in 1 .. r - 1 : req[q].pc # "idle"
    /\ PreflightCheck(r, keys[k].user_id, k, n)
    /\ UNCHANGED <<now, users, keys, api_usage, token_tx, pur, rev, stat, accounts, reg, login>>

\* the same for POST /api/credit-scores on the credit scoring gateway
CreditDispatch(r, k, n) ==
    /\ req[r].pc = "idle"
    /\ \A q \in 1 .. r - 1 : req[q].pc # "idle"
    /\ PreflightAt(r, keys[k].user_id, k, n, credit_scores_cost(n))
    /\ UNCHANGED <<now, users, keys, api_usage, token_tx, pur, rev, stat, accounts, reg, login>>

\* variant: the debit is attempted whatever the handler answered
Handler_AlwaysConsume(r, o) ==
    /\ req[r].pc = "handler"
    /\ req' = [req EXCEPT ![r].outcome = o, ![r].pc = "consume"]
    /\ UNCHANGED <<now, users, keys, api_usage, token_tx, pur, rev, stat, accounts, reg, login>>

\* call_next: the route handler answers 2xx, answers non-2xx, or raises
Handler(r, o) ==
    /\ req[r].pc = "handler"
    /\ req' = [req EXCEPT ![r].outcome = o,
                          ![r].pc = IF o = "2xx" THEN "consume" ELSE "log"]
    /\ UNCHANGED <<now, users, keys, api_usage, token_tx, pur, rev, stat, accounts, reg, login>>

\* consume_tokens, lines 45-47: the read of the user row and the check
ConsumeRead(r) ==
    /\ req[r].pc = "consume"
    /\ LET u == users[req[r].user_id]
       IN  req' = [req EXCEPT ![r] =
                 IF u.token_balance < req[r].token_cost
                 THEN [@ EXCEPT !.pc = "log", !.success = FALSE]
                 ELSE [@ EXCEPT !.pc = "commit",
                                !.read_balance = u.token_balance,
                                !.read_used = u.total_tokens_used]]
    /\ UNCHANGED <<now, users, keys, api_usage, token_tx, pur, rev, stat, accounts, reg, login>>

\* variant: the debit is the endpoint's base cost, whatever the batch size
ConsumeCommit_BaseDebit(r) ==
    /\ req[r].pc = "commit"
    /\ LET uid  == req[r].user_id
           cost == BaseCost
           prev == req[r].read_balance
       IN  /\ users' = [users EXCEPT ![uid].token_balance = prev - cost,
                                     ![uid].total_tokens_used = req[r].read_used + cost]
           /\ token_tx' = Append(token_tx,
                 TxRow(r, uid, "usage", 0 - cost, prev, prev - cost, now,
                       usage_reference(req[r].api_key_id, now)))
           /\ api_usage' = Append(api_usage,
                 UsageRow(r, uid, req[r].api_key_id, cost, TRUE, None, now))
    /\ req' = [req EXCEPT ![r].pc = "headers", ![r].success = TRUE,
                          ![r].read_balance = Null, ![r].read_used = Null]
    /\ UNCHANGED <<now, keys, pur, rev, stat, accounts, reg, login>>

\* consume_tokens, lines 49-78: the debit, the transaction row and the usage
\* row, committed together
ConsumeCommit(r) ==
    /\ req[r].pc = "commit"
    /\ LET uid  == req[r].user_id
           cost == req[r].token_cost
           prev == req[r].read_balance
       IN  /\ users' = [users EXCEPT ![uid].token_balance = prev - cost,
                                     ![uid].total_tokens_used = req[r].read_used + cost]
           /\ token_tx' = Append(token_tx,
                 TxRow(r, uid, "usage", 0 - cost, prev, prev - cost, now,
                       usage_reference(req[r].api_key_id, now)))
           /\ api_usage' = Append(api_usage,
                 UsageRow(r, uid, req[r].api_key_id, cost, TRUE, None, now))
    /\ req' = [req EXCEPT ![r].pc = "headers", ![r].success = TRUE,
                          ![r].read_balance = Null, ![r].read_used = Null]
    /\ UNCHANGED <<now, keys, pur, rev, stat, accounts, reg, login>>

\* variant: the header is the balance read back less the cost
BillingHeaders_LessCost(r) ==
    /\ req[r].pc = "headers"
    /\ req' = [req EXCEPT ![r].pc = "log",
                          ![r].new_balance =
                              users[req[r].user_id].token_balance - req[r].token_cost]
    /\ UNCHANGED <<now, users, keys, api_usage, token_tx, pur, rev, stat, accounts, reg, login>>

\* dispatch, lines 151-156: the balance read again for X-Remaining-Balance
BillingHeaders(r) ==
    /\ req[r].pc = "headers"
    /\ req' = [req EXCEPT ![r].pc = "log",
                          ![r].new_balance = users[req[r].user_id].token_balance]
    /\ UNCHANGED <<now, users, keys, api_usage, token_tx, pur, rev, stat, accounts, reg, login>>

\* dispatch, lines 207-213: the outer except clause of dispatch.  It encloses
\* the inner try block, so the exception re-raised at line 205 is caught here
\* and answered by the billing stage; nothing leaves dispatch as an exception
BillingExcept == [status |-> 500, detail |-> "Billing error", propagated |-> FALSE]

\* dispatch, lines 185-213: the answer of the billing stage for request
\* record q.  The handler's response is returned unless the handler or a
\* store call inside the inner try block raised
Answered(q) ==
    IF q.error = None /\ q.outcome = "2xx" THEN [q EXCEPT !.pc = "done", !.status = 200]
    ELSE IF q.error = None /\ q.outcome = "non2xx"
    THEN [q EXCEPT !.pc = "done", !.status = 400]
    ELSE [q EXCEPT !.pc = "done", !.status = BillingExcept.status,
                   !.detail = BillingExcept.detail,
                   !.propagated = BillingExcept.propagated]

\* variant: _log_usage rewrites the usage row that consume_tokens wrote for
\* the request instead of adding its own
LogUsage_UpdateRow(r) ==
    /\ req[r].pc = "log"
    /\ LET o == req[r].outcome
           mine == {i \in DOMAIN api_usage : api_usage[i].rid = r}
           row == IF o = "2xx" /\ req[r].error = None
                  THEN UsageRow(r, req[r].user_id, req[r].api_key_id,
                                IF req[r].success THEN req[r].token_cost ELSE 0,
                                TRUE, "logged", now)
                  ELSE UsageRow(r, req[r].user_id, req[r].api_key_id, 0, FALSE,
                                IF o = "non2xx" THEN "HTTP 400" ELSE "exception", now)
       IN  /\ api_usage' = IF mine = {} THEN Append(api_usage, row)
                           ELSE [i \in DOMAIN api_usage |->
                                   IF i \in mine THEN row ELSE api_usage[i]]
           /\ req' = [req EXCEPT ![r] = Answered(@)]
    /\ UNCHANGED <<now, users, keys, token_tx, pur, rev, stat, accounts, reg, login>>

\* dispatch, lines 158-213: _log_usage and the response
LogUsage(r) ==
    /\ req[r].pc = "log"
    /\ LET o == req[r].outcome
           row == IF o = "2xx" /\ req[r].error = None
                  THEN UsageRow(r, req[r].user_id, req[r].api_key_id,
                                IF req[r].success THEN req[r].token_cost ELSE 0,
                                TRUE, None, now)
                  ELSE UsageRow(r, req[r].user_id, req[r].api_key_id, 0, FALSE,
                                IF o = "non2xx" THEN "HTTP 400" ELSE "exception", now)
       IN  /\ api_usage' = Append(api_usage, row)
           /\ req' = [req EXCEPT ![r] = Answered(@)]
    /\ UNCHANGED <<now, users, keys, token_tx, pur, rev, stat, accounts, reg, login>>

\* ------------------------------------------------------------ store errors
\* A statement sent to the store may raise (the engine is SQLite opened by
\* several sessions).  The calls of the billing stage that reach the store:
\* check_sufficient_balance (line 123), consume_tokens (142: the read of the
\* user row and the commit), get_user_balance (153) and _log_usage (159-202).

\* line 123 raises: outside the inner try block, so the outer except clause
\* answers without a usage row
PreflightFault(r, k, n) ==
    /\ req[r].pc = "idle"
    /\ \A q \in 1 .. r - 1 : req[q].pc # "idle"
    /\ req' = [req EXCEPT ![r] =
          Answered([@ EXCEPT !.n = n, !.user_id = keys[k].user_id, !.api_key_id = k,
                             !.token_cost = calculate_endpoint_cost(n),
                             !.error = "store"])]
    /\ UNCHANGED <<now, users, keys, api_usage, token_tx, pur, rev, stat, accounts, reg, login>>

\* consume_tokens raises at its read of the user row or at its commit:
\* nothing of the debit is written, the inner except clause takes over
ConsumeFault(r) ==
    /\ req[r].pc \in {"consume", "commit"}
    /\ req' = [req EXCEPT ![r].pc = "log", ![r].error = "store",
                          ![r].read_balance = Null, ![r].read_used = Null]
    /\ UNCHANGED <<now, users, keys, api_usage, token_tx, pur, rev, stat, accounts, reg, login>>

\* get_user_balance at line 153 raises, after consume_tokens has returned
\* True: the inner except clause takes over
HeadersFault(r) ==
    /\ req[r].pc = "headers"
    /\ req' = [req EXCEPT ![r].pc = "log", ![r].error = "store"]
    /\ UNCHANGED <<now, users, keys, api_usage, token_tx, pur, rev, stat, accounts, reg, login>>

\* _log_usage raises inside: lines 239-242 swallow the error and roll back,
\* no row is written and the answer is what it would have been
LogFault(r) ==
    /\ req[r].pc = "log"
    /\ req' = [req EXCEPT ![r] = Answered(@)]
    /\ UNCHANGED <<now, users, keys, api_usage, token_tx, pur, rev, stat, accounts, reg, login>>

\* ------------------------------------------- purchase_tokens, add_tokens
\* purchase_tokens makes its transaction_id and calls add_tokens, which
\* reads the user row
PurchaseRead(p, uid, amount) ==
    /\ pur[p].pc = "idle"
    /\ pur' = [pur EXCEPT ![p] = [pc |-> "commit", user_id |-> uid, amount |-> amount,
                                  read_balance |-> users[uid].token_balance,
                                  read_purchased |-> users[uid].total_tokens_purchased,
                                  transaction_id |-> demo_transaction_id(uid, now)]]
    /\ UNCHANGED <<now, users, keys, api_usage, token_tx, req, rev, stat, accounts, reg, login>>

\* add_tokens writes the row with the reference it was handed; the call in
\* purchase_tokens hands over user_id, amount, transaction_type, description
\* and db, and keeps transaction_id for the response
PurchaseCommit(p) ==
    /\ pur[p].pc = "commit"
    /\ LET uid == pur[p].user_id
           prev == pur[p].read_balance
           a == pur[p].amount
       IN  /\ users' = [users EXCEPT ![uid].token_balance = prev + a,
                                     ![uid].total_tokens_purchased = pur[p].read_purchased + a]
           /\ token_tx' = Append(token_tx, TxRow(0, uid, "purchase", a, prev, prev + a, now, NoReference))
    /\ pur' = [pur EXCEPT ![p].pc = "done"]
    /\ UNCHANGED <<now, keys, api_usage, req, rev, stat, accounts, reg, login>>

\* ------------------------------------------------------- rate limit status
\* RateLimitMiddleware.dispatch entered with the principal (key k of the
\* store) already on request.state
RateDispatch(r, k) ==
    /\ req[r].pc = "idle"
    /\ \A q \in 1 .. r - 1 : req[q].pc # "idle"
    /\ req' = [req EXCEPT ![r].pc = "rate", ![r].n = 1,
                          ![r].user_id = keys[k].user_id, ![r].api_key_id = k]
    /\ UNCHANGED <<now, users, keys, api_usage, token_tx, pur, rev, stat, accounts, reg, login>>

\* BillingRouter.get_rate_limit_status for the principal (key k of the store)
RateLimitStatus(k) ==
    /\ stat' = [user_id |-> keys[k].user_id, api_key_id |-> k, at |-> now,
                ret |-> get_rate_limit_status(users, keys, api_usage,
                                              keys[k].user_id, k, now)]
    /\ UNCHANGED <<now, users, keys, api_usage, token_tx, req, pur, rev, accounts, reg, login>>

\* -------------------------------------------------------- usage statistics
RECURSIVE TokensOver(_, _)
TokensOver(A, S) ==
    IF S = {} THEN 0
    ELSE LET i == CHOOSE j \in S : TRUE
         IN  A[i].tokens_consumed + TokensOver(A, S \ {i})

\* every billed request of the model goes to this one endpoint
BilledEndpoint == "/api/peak-voltages"

\* BillingService.get_usage_stats: the rows of the user whose timestamp is
\* not before `since`; the second query groups the same rows by endpoint
get_usage_stats(U, A, user_id, days, t) ==
    LET since == t - days * DAY
        usage_query == {i \in DOMAIN A :
                           A[i].user_id = user_id /\ A[i].timestamp >= since}
    IN  [period_days |-> days,
         current_balance |-> IF user_id \in DOMAIN U THEN U[user_id].token_balance ELSE 0,
         total_requests |-> Cardinality(usage_query),
         total_tokens_consumed |-> TokensOver(A, usage_query),
         endpoint_breakdown |->
             IF usage_query = {} THEN {}
             ELSE {[endpoint |-> BilledEndpoint,
                    requests |-> Cardinality(usage_query),
                    tokens |-> TokensOver(A, usage_query)]}]

\* BillingRouter.get_usage_stats for the authenticated user: days outside
\* 1 .. 365 are answered 400 before the service is called
UsageStats(user_id, days) ==
    /\ days > 0 /\ days <= MaxStatDays
    /\ stat' = [user_id |-> user_id, api_key_id |-> Null, at |-> now,
                ret |-> get_usage_stats(users, api_usage, user_id, days, now)]
    /\ UNCHANGED <<now, users, keys, api_usage, token_tx, req, pur, rev, accounts, reg, login>>

\* ------------------------------------------------------ revoke_api_key
KeyNames == {DefaultKeyName, "ci"}

\* the rows the query of revoke_api_key matches; it filters on user_id and
\* name only
RevokeMatches(K, username, api_key_name) ==
    {k \in DOMAIN K : K[k].user_id = username /\ K[k].name = api_key_name}

\* AuthService.revoke_api_key.  The query has no ORDER BY, so .first() is any
\* one of the matching rows.  A call that returns False changes nothing.
RevokeKey(username, api_key_name) ==
    LET found == RevokeMatches(keys, username, api_key_name)
    IN  IF username \notin DOMAIN users \/ found = {}
        THEN UNCHANGED vars
        ELSE /\ \E k \in found : keys' = [keys EXCEPT ![k].is_active = FALSE]
             /\ rev' = rev \cup {<<username, api_key_name>>}
             /\ UNCHANGED <<now, users, api_usage, token_tx, req, pur, stat, accounts, reg, login>>

\* ------------------------------------------------------------ specification
BillingSteps(r) ==
    \/ \E o \in Outcomes : Handler(r, o)
    \/ ConsumeRead(r)
    \/ ConsumeCommit(r)
    \/ BillingHeaders(r)
    \/ LogUsage(r)

\* Spec: concurrent requests in the billing stage
Next ==
    \/ \E r \in Reqs, k \in BillingKeys, n \in 1 .. MaxBatch : BillingDispatch(r, k, n)
    \/ \E r \in Reqs : BillingSteps(r)

Spec == Init /\ [][Next]_vars

\* SpecFault: the same with store errors
NextFault ==
    \/ Next
    \/ \E r \in Reqs, k \in BillingKeys, n \in 1 .. MaxBatch : PreflightFault(r, k, n)
    \/ \E r \in Reqs : ConsumeFault(r)
    \/ \E r \in Reqs : HeadersFault(r)
    \/ \E r \in Reqs : LogFault(r)

SpecFault == Init /\ [][NextFault]_vars

\* SpecPay: the same with concurrent purchases
NextPay ==
    \/ Next
    \/ \E p \in Purchases, u \in Users, a \in 1 .. MaxAmount : PurchaseRead(p, u, a)
    \/ \E p \in Purchases : PurchaseCommit(p)

SpecPay == Init /\ [][NextPay]_vars

\* SpecCredit: concurrent batch requests to POST /api/credit-scores
NextCredit ==
    \/ \E r \in Reqs, k \in BillingKeys, n \in 1 .. MaxBatch : CreditDispatch(r, k, n)
    \/ \E r \in Reqs : BillingSteps(r)

SpecCredit == Init /\ [][NextCredit]_vars

\* SpecLedger: two concurrent requests and one purchase, for the properties
\* of single ledger rows
LedgerReqs == {1, 2}

NextLedger ==
    \/ \E r \in LedgerReqs, k \in BillingKeys, n \in 1 .. MaxBatch : BillingDispatch(r, k, n)
    \/ \E r \in LedgerReqs : BillingSteps(r)
    \/ \E u \in Users, a \in 1 .. MaxAmount : PurchaseRead(1, u, a)
    \/ PurchaseCommit(1)

SpecLedger == Init /\ [][NextLedger]_vars

\* SpecSeq: one single-item request after another through the whole pipeline;
\* the clock advances between requests; requests_per_minute is any limit up
\* to MaxLimit
InitSeq == \E rpm \in 1 .. MaxLimit : InitStore(rpm)

Quiescent == \A q \in AllReqs : req[q].pc \in {"idle", "done"}

NextSeq ==
    \/ Quiescent /\ Tick
    \/ \E r \in AllReqs, k \in Plaintexts :
          /\ Quiescent
          /\ \A q \in 1 .. r - 1 : req[q].pc # "idle"
          /\ AuthStage(r, k, 1)
    \/ \E r \in AllReqs : RateLimitStage(r)
    \/ \E r \in AllReqs : Preflight(r)
    \/ \E r \in AllReqs : BillingSteps(r)

SpecSeq == InitSeq /\ [][NextSeq]_vars

\* SpecRace: concurrent requests of one principal through the rate limit
\* stage and the billing stage
RaceReqs == {1, 2}
RaceKey == 1

NextRace ==
    \/ Tick
    \/ \E r \in RaceReqs : RateDispatch(r, RaceKey)
    \/ \E r \in RaceReqs : RateLimitStage(r)
    \/ \E r \in RaceReqs : Preflight(r)
    \/ \E r \in RaceReqs : BillingSteps(r)

SpecRace == InitSeq /\ [][NextRace]_vars

\* SpecWindow: as SpecSeq, the calls made with the two keys of one user
WindowBearers == {"pk_a", "pk_b"}

NextWindow ==
    \/ Quiescent /\ Tick
    \/ \E r \in AllReqs, k \in WindowBearers :
          /\ Quiescent
          /\ \A q \in 1 .. r - 1 : req[q].pc # "idle"
          /\ AuthStage(r, k, 1)
    \/ \E r \in AllReqs : RateLimitStage(r)
    \/ \E r \in AllReqs : Preflight(r)
    \/ \E r \in AllReqs : BillingSteps(r)

SpecWindow == InitSeq /\ [][NextWindow]_vars

\* SpecOrder: as SpecSeq, the calls made with a valid key or an unknown one
OrderBearers == {"pk_a", "pk_x"}

NextOrder ==
    \/ Quiescent /\ Tick
    \/ \E r \in AllReqs, k \in OrderBearers :
          /\ Quiescent
          /\ \A q \in 1 .. r - 1 : req[q].pc # "idle"
          /\ AuthStage(r, k, 1)
    \/ \E r \in AllReqs : RateLimitStage(r)
    \/ \E r \in AllReqs : Preflight(r)
    \/ \E r \in AllReqs : BillingSteps(r)

SpecOrder == InitSeq /\ [][NextOrder]_vars

\* SpecAuth: the authentication stage over stores whose keys are active or
\* not, expiring or not, and whose users are active or not
InitAuth ==
    /\ now = 0
    /\ \E act \in [Users -> BOOLEAN] :
          users = [u \in Users |-> [NewUser(MaxLimit) EXCEPT !.is_active = act[u]]]
    /\ \E ka \in [KeyIds -> BOOLEAN], ke \in [KeyIds -> {Null, KeyExpiry}] :
          keys = [k \in KeyIds |->
                    [NewKey(IF k = 1 THEN "pk_a" ELSE IF k = 2 THEN "pk_b" ELSE "pk_c",
                            IF k = 3 THEN "u2" ELSE "u1", users, ke[k])
                       EXCEPT !.is_active = ka[k]]]
    /\ api_usage = <<>>
    /\ token_tx = <<>>
    /\ req = [r \in AllReqs |-> IdleReq]
    /\ pur = [p \in Purchases |-> IdlePur]
    /\ rev = {}
    /\ stat = NoStatus
    /\ accounts = <<>>
    /\ reg = [g \in Regs |-> IdleReg]
    /\ login = [l \in Logins |-> IdleLogin]

NextAuth ==
    \/ Tick
    \/ \E r \in AllReqs, k \in Plaintexts :
          /\ \A q \in 1 .. r - 1 : req[q].pc # "idle"
          /\ AuthStage(r, k, 1)

SpecAuth == InitAuth /\ [][NextAuth]_vars

\* SpecLife: the life of the keys of u1: validation, expiry, revocation and
\* the generation of a new key, also under the name of a revoked one
LifeReqs == {1, 2}
LifeBearers == {"pk_a", "pk_b", "pk_m1"}

InitLife ==
    /\ now = 0
    /\ users = [u \in Users |-> NewUser(MaxLimit)]
    /\ accounts = [i \in 1 .. 2 |->
          LET u == IF i = 1 THEN "u1" ELSE "u2"
          IN  [username |-> u, email |-> u,
               hashed_password |-> hash_password("long-enough-pw"),
               is_active |-> TRUE]]
    /\ \E e \in {Null, KeyExpiry} :
          keys = [k \in KeyIds |->
                    NewKey(IF k = 1 THEN "pk_a" ELSE IF k = 2 THEN "pk_b" ELSE "pk_c",
                           IF k = 3 THEN "u2" ELSE "u1", users,
                           IF k = 2 THEN e ELSE Null)]
    /\ api_usage = <<>>
    /\ token_tx = <<>>
    /\ req = [r \in AllReqs |-> IdleReq]
    /\ pur = [p \in Purchases |-> IdlePur]
    /\ rev = {}
    /\ stat = NoStatus
    /\ reg = [g \in Regs |-> IdleReg]
    /\ login = [l \in Logins |-> IdleLogin]

NextLife ==
    \/ Tick
    \/ \E r \in LifeReqs, k \in LifeBearers :
          /\ \A q \in 1 .. r - 1 : req[q].pc # "idle"
          /\ AuthStage(r, k, 1)
    \/ \E nm \in KeyNames : RevokeKey("u1", nm)
    \/ \E name \in KeyNames : CreateKey(1, "u1", "long-enough-pw", name)

SpecLife == InitLife /\ [][NextLife]_vars

\* SpecRegister: concurrent registrations
NextRegister ==
    \/ \E g \in Regs, username \in RegUsernames, email \in RegEmails,
          password \in RegPasswords : RegisterCheck(g, username, email, password)
    \/ \E g \in Regs : RegisterInsert(g)

SpecRegister == Init /\ [][NextRegister]_vars

\* SpecLogin: login and generate-key calls, one after another, over user
\* tables whose users are active or not
LoginUsernames == Users \cup {"eve"}
LoginPasswords == {"long-enough-pw", "wrong", ""}

InitLogin ==
    /\ now = 0
    /\ \E act \in [Users -> BOOLEAN] :
          /\ users = [u \in Users |-> [NewUser(MaxLimit) EXCEPT !.is_active = act[u]]]
          /\ accounts = [i \in 1 .. 2 |->
                LET u == IF i = 1 THEN "u1" ELSE "u2"
                IN  [username |-> u, email |-> u,
                     hashed_password |-> hash_password("long-enough-pw"),
                     is_active |-> act[u]]]
    /\ keys = (1 :> NewKey("pk_a", "u1", users, Null)
            @@ 2 :> NewKey("pk_b", "u1", users, Null)
            @@ 3 :> NewKey("pk_c", "u2", users, Null))
    /\ api_usage = <<>>
    /\ token_tx = <<>>
    /\ req = [r \in AllReqs |-> IdleReq]
    /\ pur = [p \in Purchases |-> IdlePur]
    /\ rev = {}
    /\ stat = NoStatus
    /\ reg = [g \in Regs |-> IdleReg]
    /\ login = [l \in Logins |-> IdleLogin]

NextLogin ==
    \/ \E l \in Logins, username \in LoginUsernames, password \in LoginPasswords :
          Login(l, username, password)
    \/ \E l \in Logins, username \in LoginUsernames, password \in LoginPasswords,
          name \in KeyNames : CreateKey(l, username, password, name)

SpecLogin == InitLogin /\ [][NextLogin]_vars

\* SpecPurchase: one POST /billing/purchase-tokens after another, the clock
\* advancing or not between them
PurchaseCalls == {1, 2}

InitPurchase ==
    /\ now = 0
    /\ users = [u \in Users |-> NewUser(MaxLimit)]
    /\ keys = (1 :> NewKey("pk_a", "u1", users, Null)
            @@ 2 :> NewKey("pk_b", "u1", users, Null)
            @@ 3 :> NewKey("pk_c", "u2", users, Null))
    /\ api_usage = <<>>
    /\ token_tx = <<>>
    /\ req = [r \in AllReqs |-> IdleReq]
    /\ pur = [p \in PurchaseCalls |-> IdlePur]
    /\ rev = {}
    /\ stat = NoStatus
    /\ accounts = <<>>
    /\ reg = [g \in Regs |-> IdleReg]
    /\ login = [l \in Logins |-> IdleLogin]

NextPurchase ==
    \/ (\A q \in PurchaseCalls : pur[q].pc # "commit") /\ Tick
    \/ \E p \in PurchaseCalls, u \in Users, a \in 1 .. MaxAmount :
          /\ \A q \in PurchaseCalls : pur[q].pc # "commit"
          /\ \A q \in 1 .. p - 1 : pur[q].pc = "done"
          /\ PurchaseRead(p, u, a)
    \/ \E p \in PurchaseCalls : PurchaseCommit(p)

SpecPurchase == InitPurchase /\ [][NextPurchase]_vars

\* SpecInherit: key generation between changes of a user's limits; no route
\* of the gateways writes the three limit columns of User, a change is an
\* update of the row by the operator
LimitValues == {0, 1, MaxLimit}

ChangeLimits(u, w, v) ==
    /\ LimitField(users[u], w) # v
    /\ users' = [users EXCEPT ![u] =
          IF w = "minute" THEN [@ EXCEPT !.requests_per_minute = v]
          ELSE IF w = "hour" THEN [@ EXCEPT !.requests_per_hour = v]
          ELSE [@ EXCEPT !.requests_per_day = v]]
    /\ UNCHANGED <<now, keys, api_usage, token_tx, req, pur, rev, stat,
                   accounts, reg, login>>

NextInherit ==
    \/ \E w \in WindowSet, v \in LimitValues : ChangeLimits("u1", w, v)
    \/ \E l \in Logins, username \in Users, password \in LoginPasswords,
          name \in KeyNames : CreateKey(l, username, password, name)

SpecInherit == InitLogin /\ [][NextInherit]_vars

\* SpecGate: requests to any path with any Authorization header, one after
\* another, over stores whose keys are active or not
GatePaths ==
    {<<"/api/", "peak-voltages">>, <<"/api/", "credit-scores">>,
     <<"/billing/", "balance">>, <<"/auth/", "register">>,
     <<"/auth/", "my-keys">>, <<"/auth/", "revoke-key/", "ci">>, <<"/docs">>}

GateParams == {"pk_a", "pk_x", ""}

GateHeaders ==
    {NoAuthorization}
        \cup {[present |-> TRUE, scheme |-> sc, param |-> k] :
                  sc \in Schemes, k \in GateParams}

GateReqs == {1, 2}

InitGate ==
    /\ now = 0
    /\ users = [u \in Users |-> NewUser(MaxLimit)]
    /\ \E ka \in [KeyIds -> BOOLEAN] :
          keys = [k \in KeyIds |->
                    [NewKey(IF k = 1 THEN "pk_a" ELSE IF k = 2 THEN "pk_b" ELSE "pk_c",
                            IF k = 3 THEN "u2" ELSE "u1", users, Null)
                       EXCEPT !.is_active = ka[k]]]
    /\ api_usage = <<>>
    /\ token_tx = <<>>
    /\ req = [r \in AllReqs |-> IdleReq]
    /\ pur = [p \in Purchases |-> IdlePur]
    /\ rev = {}
    /\ stat = NoStatus
    /\ accounts = <<>>
    /\ reg = [g \in Regs |-> IdleReg]
    /\ login = [l \in Logins |-> IdleLogin]

NextGate ==
    \E r \in GateReqs, path \in GatePaths, h \in GateHeaders : AuthDispatch(r, path, h)

SpecGate == InitGate /\ [][NextGate]_vars

\* SpecRevoke: revocations and validations, one call after another, over
\* stores whose keys carry any of the names
InitRevoke ==
    /\ now = 0
    /\ users = [u \in Users |-> NewUser(MaxLimit)]
    /\ \E nm \in [KeyIds -> KeyNames] :
          keys = [k \in KeyIds |->
                    [NewKey(IF k = 1 THEN "pk_a" ELSE IF k = 2 THEN "pk_b" ELSE "pk_c",
                            IF k = 3 THEN "u2" ELSE "u1", users, Null)
                       EXCEPT !.name = nm[k]]]
    /\ api_usage = <<>>
    /\ token_tx = <<>>
    /\ req = [r \in AllReqs |-> IdleReq]
    /\ pur = [p \in Purchases |-> IdlePur]
    /\ rev = {}
    /\ stat = NoStatus
    /\ accounts = <<>>
    /\ reg = [g \in Regs |-> IdleReg]
    /\ login = [l \in Logins |-> IdleLogin]

NextRevoke ==
    \/ \E u \in Users, nm \in KeyNames : RevokeKey(u, nm)
    \/ \E r \in AllReqs, k \in Plaintexts :
          /\ \A q \in 1 .. r - 1 : req[q].pc # "idle"
          /\ AuthStage(r, k, 1)

SpecRevoke == InitRevoke /\ [][NextRevoke]_vars

\* SpecRate: the rate limit service over stores with usage rows of any age,
\* successful or not, made with either key of u1, and with any override
\* limits on key 1 (the columns are Optional[int]: null, 0 or a number); the
\* user's limits are 1 or MaxLimit in every window
RateEpoch == 2 * DAY

Ages == {MINUTE \div 2, HOUR \div 2, DAY \div 2, 2 * DAY}

Overrides == {Null, 0, 1}

RateKeys == {1, 2}

UsageRowChoices ==
    {UsageRow(0, "u1", k, IF ok THEN 1 ELSE 0, ok, None, RateEpoch - a) :
        k \in RateKeys, ok \in BOOLEAN, a \in Ages}

\* tables of up to MaxReqs rows; ids follow insertion time
UsageTables ==
    {A \in UNION {[1 .. n -> UsageRowChoices] : n \in 0 .. MaxReqs} :
        \A i \in 1 .. Len(A) - 1 : A[i].timestamp <= A[i + 1].timestamp}

InitRate ==
    /\ now = RateEpoch
    /\ \E l \in {1, MaxLimit} :
          users = [u \in Users |->
                     [NewUser(l) EXCEPT !.requests_per_hour = l, !.requests_per_day = l]]
    /\ \E ov \in [WindowSet -> Overrides] :
          keys = [k \in KeyIds |->
                    LET new == NewKey(IF k = 1 THEN "pk_a" ELSE IF k = 2 THEN "pk_b" ELSE "pk_c",
                                      IF k = 3 THEN "u2" ELSE "u1", users, Null)
                    IN  IF k = 1
                        THEN [new EXCEPT !.requests_per_minute = ov["minute"],
                                         !.requests_per_hour = ov["hour"],
                                         !.requests_per_day = ov["day"]]
                        ELSE new]
    /\ api_usage \in UsageTables
    /\ token_tx = <<>>
    /\ req = [r \in AllReqs |-> IdleReq]
    /\ pur = [p \in Purchases |-> IdlePur]
    /\ rev = {}
    /\ stat = NoStatus
    /\ accounts = <<>>
    /\ reg = [g \in Regs |-> IdleReg]
    /\ login = [l \in Logins |-> IdleLogin]

NextRate ==
    \/ \E k \in RateKeys : RateDispatch(1, k)
    \/ RateLimitStage(1)

SpecRate == InitRate /\ [][NextRate]_vars

\* SpecUsage: usage statistics read over the same stores
StatDays == {1, 2, 3}

NextUsage == \E u \in Users, days \in StatDays : UsageStats(u, days)

SpecUsage == InitRate /\ [][NextUsage]_vars

\* SpecStatus: rate-limit status read over the same stores
NextStatus == \E k \in RateKeys : RateLimitStatus(k)

SpecStatus == InitRate /\ [][NextStatus]_vars

\* ======================================================================
\* Properties
\* ======================================================================
UsageRowsOf(r) == {i \in DOMAIN api_usage : api_usage[i].rid = r}

DebitsOf(r) ==
    {i \in DOMAIN token_tx :
        token_tx[i].rid = r /\ token_tx[i].transaction_type = "usage"}

\* the step in which request r is given its answer by the billing preflight
\* or is passed on to the handler
LeavesPreflight(r) ==
    /\ req[r].pc \in {"idle", "preflight"}
    /\ req'[r].pc = "handler" \/ (req'[r].pc = "done" /\ req'[r].status = 402)

\* the step in which request r presents its bearer to the authentication stage
Presents(r) == req[r].pc = "idle" /\ req'[r].pc # "idle" /\ req'[r].bearer # None

PastExpiry(k) == keys[k].expires_at # Null /\ keys[k].expires_at < now

\* ---------------------------------------------------------------- C1
\* C1: the balance is reduced, total_tokens_used raised and a usage
\* transaction appended only by a request whose handler answered 2xx; a
\* request whose handler answered non-2xx or raised has no debit, and the
\* one usage row written for it has success = false and tokens_consumed = 0.
C1_FailedRequestKept ==
    \A r \in AllReqs :
        /\ DebitsOf(r) # {} => req[r].outcome = "2xx"
        /\ (req[r].pc = "done" /\ req[r].outcome \in {"non2xx", "raise"}) =>
              /\ DebitsOf(r) = {}
              /\ Cardinality(UsageRowsOf(r)) = 1
              /\ \A i \in UsageRowsOf(r) :
                    ~api_usage[i].success /\ api_usage[i].tokens_consumed = 0

C1_DebitStep ==
    \A u \in Users :
        (\/ users'[u].token_balance < users[u].token_balance
         \/ users'[u].total_tokens_used # users[u].total_tokens_used
         \/ /\ Len(token_tx') > Len(token_tx)
            /\ token_tx'[Len(token_tx')].transaction_type = "usage"
            /\ token_tx'[Len(token_tx')].user_id = u)
        => \E r \in AllReqs :
              /\ req[r].user_id = u
              /\ req[r].outcome = "2xx"
              /\ req'[r].pc # req[r].pc

C1_DebitOnlyOnSuccess == [](C1_FailedRequestKept) /\ [][C1_DebitStep]_vars

C1_Witness ==
    \E r, q \in Reqs :
        /\ req[r].pc = "done" /\ req[r].outcome = "raise" /\ UsageRowsOf(r) # {}
        /\ req[q].pc = "done" /\ req[q].outcome = "2xx" /\ DebitsOf(q) # {}
        /\ req[q].user_id = req[r].user_id

\* ---------------------------------------------------------------- C2
\* C2: token_balance is never negative, and a debit commits only when the
\* balance in the store at that moment covers its amount (otherwise the
\* consume fails), whatever purchases and other requests run beside it.
C2_CommitCovered ==
    \A r \in AllReqs :
        (req[r].pc = "commit" /\ req'[r].pc = "headers") =>
            users[req[r].user_id].token_balance >= req[r].token_cost

C2_NeverOverdrawn ==
    [](\A u \in Users : users[u].token_balance >= 0) /\ [][C2_CommitCovered]_vars

\* ---------------------------------------------------------------- C3
\* C3: with debits only, token_balance equals the starting balance minus the
\* sum of the amounts of the user's committed debits (no lost update).
RECURSIVE DebitedSum(_, _)
DebitedSum(T, u) ==
    IF T = <<>> THEN 0
    ELSE (IF Head(T).user_id = u /\ Head(T).transaction_type = "usage"
          THEN 0 - Head(T).amount ELSE 0) + DebitedSum(Tail(T), u)

C3_NoLostDebit ==
    \A u \in Users : users[u].token_balance = InitBalance - DebitedSum(token_tx, u)

\* ---------------------------------------------------------------- C4
\* C4: a request whose preflight passed and whose handler answered 2xx, but
\* whose consume returned false, is answered 402.
C4_RaceLostIs402 ==
    \A r \in AllReqs :
        (req[r].pc = "done" /\ req[r].outcome = "2xx" /\ ~req[r].success)
            => req[r].status = 402

\* ---------------------------------------------------------------- C5
\* C5: the billing stage answers 402 exactly when the balance it reads is
\* lower than the cost; it then never dispatches to the handler and leaves the
\* users table and both ledgers as they were.
C5_Refused ==
    \A r \in AllReqs :
        req[r].status = 402 =>
            /\ req[r].pc = "done"
            /\ req[r].outcome = None
            /\ UsageRowsOf(r) = {}
            /\ DebitsOf(r) = {}

C5_PreflightStep ==
    \A r \in AllReqs :
        LeavesPreflight(r) =>
            LET short == users[req'[r].user_id].token_balance < req'[r].token_cost
            IN  /\ req'[r].token_cost = BaseCost * req'[r].n
                /\ short <=> req'[r].status = 402
                /\ short => UNCHANGED <<users, token_tx, api_usage>>

C5_InsufficientBalance == [](C5_Refused) /\ [][C5_PreflightStep]_vars

C5_Witness ==
    \E r, q \in Reqs :
        /\ req[r].status = 402
        /\ DebitsOf(q) # {}
        /\ req[q].user_id = req[r].user_id

\* ---------------------------------------------------------------- C6
\* C6: while every call made so far lies in one 60 s window and the balance
\* covers a further call, of the successful calls one principal issues one
\* after another exactly the first requests_per_minute are answered 200 and
\* the later ones 429.
Admitted(r) ==
    Cardinality({q \in 1 .. r - 1 :
        req[q].bearer = req[r].bearer /\ req[q].status = 200})

C6_FirstNAdmitted ==
    now <= MINUTE =>
        \A r \in AllReqs :
            (/\ req[r].pc = "done"
             /\ req[r].status \in {200, 429}
             /\ users[req[r].user_id].token_balance >= calculate_endpoint_cost(1)
             /\ \A q \in 1 .. r - 1 :
                   req[q].bearer = req[r].bearer => req[q].status \in {200, 429})
            => (req[r].status = 200
                   <=> Admitted(r) < users[req[r].user_id].requests_per_minute)

\* ---------------------------------------------------------------- C7
\* C7: a request answered 2xx and debited has exactly one usage row
\* (success = true, tokens_consumed = cost) and exactly one usage transaction
\* (amount = -cost).
C7_OneRowPerDebit ==
    \A r \in AllReqs :
        (req[r].pc = "done" /\ req[r].outcome = "2xx" /\ req[r].success) =>
            /\ Cardinality(UsageRowsOf(r)) = 1
            /\ \A i \in UsageRowsOf(r) :
                  api_usage[i].success /\ api_usage[i].tokens_consumed = req[r].token_cost
            /\ Cardinality(DebitsOf(r)) = 1
            /\ \A i \in DebitsOf(r) : token_tx[i].amount = 0 - req[r].token_cost

\* ---------------------------------------------------------------- C8
\* C8: validate_key returns the owning user_id exactly when a key with the
\* matching hash exists, is active, is not past its expires_at, and its user
\* exists and is active; it then sets last_used to the current time; in every
\* other case it returns None.
ValidKeys(p) ==
    {k \in KeyIds :
        /\ keys[k].hashed_key = hash_api_key(p)
        /\ keys[k].is_active
        /\ (keys[k].expires_at = Null \/ keys[k].expires_at >= now)
        /\ keys[k].user_id \in Users
        /\ users[keys[k].user_id].is_active}

C8_Step ==
    \A r \in AllReqs :
        Presents(r) =>
            IF ValidKeys(req'[r].bearer) # {}
            THEN \E k \in ValidKeys(req'[r].bearer) :
                    /\ req'[r].user_id = keys[k].user_id
                    /\ req'[r].api_key_id = k
                    /\ keys'[k].last_used = now
            ELSE req'[r].user_id = None /\ req'[r].status = 401

C8_ValidateKey == [][C8_Step]_vars

C8_Witness ==
    \E r, q \in AllReqs :
        /\ req[r].pc = "rate" /\ req[r].user_id # None
        /\ keys[req[r].api_key_id].last_used # Null
        /\ req[q].status = 401 /\ req[q].bearer = "pk_b"

\* ---------------------------------------------------------------- C9
\* C9: a request that presents an active key past its expires_at is answered
\* 401 and leaves that key with is_active = false in the store.
C9_Step ==
    \A r \in AllReqs, k \in KeyIds :
        (/\ Presents(r)
         /\ keys[k].hashed_key = hash_api_key(req'[r].bearer)
         /\ keys[k].is_active
         /\ PastExpiry(k))
        => /\ req'[r].pc = "done"
           /\ req'[r].status = 401
           /\ ~keys'[k].is_active

C9_ExpiredKeyDeactivated == [][C9_Step]_vars

C9_Witness ==
    \E r \in AllReqs, k \in KeyIds :
        /\ req[r].status = 401
        /\ keys[k].hashed_key = hash_api_key(req[r].bearer)
        /\ keys[k].last_used # Null
        /\ ~keys[k].is_active
        /\ PastExpiry(k)

\* ---------------------------------------------------------------- C10
\* C10: a validation that finds a key past its expires_at leaves it inactive;
\* from then on every validation of that key returns None, and no validation
\* changes any key's expires_at.
SeenExpired(k) == ~keys[k].is_active /\ PastExpiry(k)

C10_Step ==
    \A k \in KeyIds :
        /\ keys'[k].expires_at = keys[k].expires_at
        /\ (\E r \in AllReqs :
               /\ Presents(r)
               /\ keys[k].hashed_key = hash_api_key(req'[r].bearer)
               /\ keys[k].is_active
               /\ PastExpiry(k)) => SeenExpired(k)'
        /\ SeenExpired(k) =>
              /\ SeenExpired(k)'
              /\ \A r \in AllReqs :
                    (Presents(r) /\ keys[k].hashed_key = hash_api_key(req'[r].bearer))
                        => req'[r].user_id = None /\ req'[r].status = 401

C10_ExpiredStaysInvalid == [][C10_Step]_vars

C10_Witness ==
    \E r, q \in AllReqs, k \in KeyIds :
        /\ r < q
        /\ req[r].status = 401 /\ req[q].status = 401
        /\ req[r].bearer = req[q].bearer
        /\ keys[k].hashed_key = hash_api_key(req[r].bearer)
        /\ keys[k].last_used # Null
        /\ SeenExpired(k)

\* ---------------------------------------------------------------- C11
\* C11: once revoke_api_key(user, name) has returned True, every validation
\* of the plaintext of a key of that user with that name returns None.
C11_Step ==
    \A r \in AllReqs, k \in KeyIds :
        (/\ Presents(r)
         /\ keys[k].hashed_key = hash_api_key(req'[r].bearer)
         /\ <<keys[k].user_id, keys[k].name>> \in rev)
        => req'[r].user_id = None /\ req'[r].status = 401

C11_RevokedStaysInvalid == [][C11_Step]_vars

\* ---------------------------------------------------------------- C12
\* C12: check_rate_limit allows exactly when, in each of the three windows,
\* the number of the principal's successful usage rows is below the window's
\* limit; a refusal names a window whose count has reached its limit, with
\* that count and that limit.
PrincipalCount(u, k, w) ==
    Cardinality({i \in DOMAIN api_usage :
        /\ api_usage[i].user_id = u
        /\ api_usage[i].api_key_id = k
        /\ api_usage[i].success
        /\ api_usage[i].timestamp >= now - Duration(w)})

UnderLimit(u, k) ==
    \A w \in WindowSet : PrincipalCount(u, k, w) < WindowLimit(users, keys, u, k, w)

C12_Result ==
    \A k \in KeyIds :
        LET u   == keys[k].user_id
            res == check_rate_limit(users, keys, api_usage, u, k, now)
        IN  /\ res.allowed <=> UnderLimit(u, k)
            /\ ~res.allowed =>
                  /\ res.limit_exceeded \in WindowSet
                  /\ res.current_count = PrincipalCount(u, k, res.limit_exceeded)
                  /\ res.limit = WindowLimit(users, keys, u, k, res.limit_exceeded)
                  /\ res.current_count >= res.limit

C12_Step ==
    \A r \in AllReqs :
        (req[r].pc = "rate" /\ req'[r].pc # "rate") =>
            IF UnderLimit(req[r].user_id, req[r].api_key_id)
            THEN req'[r].pc = "preflight"
            ELSE req'[r].pc = "done" /\ req'[r].status = 429

C12_CheckRateLimit == [](C12_Result) /\ [][C12_Step]_vars

C12_Witness ==
    \E r \in AllReqs :
        /\ req[r].status = 429
        /\ PrincipalCount(req[r].user_id, req[r].api_key_id, "minute")
              < WindowLimit(users, keys, req[r].user_id, req[r].api_key_id, "minute")
        /\ PrincipalCount(req[r].user_id, req[r].api_key_id, "hour")
              < WindowLimit(users, keys, req[r].user_id, req[r].api_key_id, "hour")

\* ---------------------------------------------------------------- C13
\* C13: a request answered 401, 429 or 402, or whose handler answered non-2xx
\* or raised, adds nothing to the rate-limit count of any principal, and a
\* request that completed successfully adds exactly one: between requests the
\* count of a principal in the day window is the number of its requests
\* answered 200 (all of them lie in that window).
Completed(k) ==
    {r \in AllReqs : req[r].pc = "done" /\ req[r].status = 200 /\ req[r].api_key_id = k}

C13_OnePerSuccess ==
    (Quiescent /\ now < DAY) =>
        \A k \in KeyIds :
            get_request_count(api_usage, keys[k].user_id, k, now - DAY)
                = Cardinality(Completed(k))

\* ---------------------------------------------------------------- C14
\* C14: usage rows older than a window do not count in it: a call of a
\* principal all of whose rows are more than 60 s old, and whose hour and day
\* counts are below their limits, passes the rate limit stage.
NoRecentRow(u, k) ==
    \A i \in DOMAIN api_usage :
        (api_usage[i].user_id = u /\ api_usage[i].api_key_id = k)
            => api_usage[i].timestamp < now - MINUTE

C14_Step ==
    \A r \in AllReqs :
        LET u == req[r].user_id
            k == req[r].api_key_id
        IN  (/\ req[r].pc = "rate" /\ req'[r].pc # "rate"
             /\ NoRecentRow(u, k)
             /\ PrincipalCount(u, k, "hour") < WindowLimit(users, keys, u, k, "hour")
             /\ PrincipalCount(u, k, "day") < WindowLimit(users, keys, u, k, "day"))
            => req'[r].pc = "preflight"

C14_WindowSlides == [][C14_Step]_vars

C14_Witness ==
    \E q, r \in AllReqs :
        /\ q < r
        /\ req[q].bearer = req[r].bearer
        /\ req[q].status = 429
        /\ req[r].pc = "preflight"
        /\ PrincipalCount(req[r].user_id, req[r].api_key_id, "hour") > 0
        /\ NoRecentRow(req[r].user_id, req[r].api_key_id)

\* ---------------------------------------------------------------- C15
\* C15: the count check_rate_limit compares with the limit is taken over the
\* presented key's rows when the key has an override limit, and over all of
\* the user's successful rows in the window, whichever key made them, when
\* all three overrides of the key are null.
HasOverrides(k) == \E w \in WindowSet : LimitField(keys[k], w) # Null

UserCount(u, w) ==
    Cardinality({i \in DOMAIN api_usage :
        /\ api_usage[i].user_id = u
        /\ api_usage[i].success
        /\ api_usage[i].timestamp >= now - Duration(w)})

ScopedCount(u, k, w) ==
    IF HasOverrides(k) THEN PrincipalCount(u, k, w) ELSE UserCount(u, w)

C15_Step ==
    \A r \in AllReqs :
        LET u == req[r].user_id
            k == req[r].api_key_id
        IN  (req[r].pc = "rate" /\ req'[r].pc # "rate") =>
                (req'[r].pc = "preflight"
                    <=> \A w \in WindowSet :
                           ScopedCount(u, k, w) < WindowLimit(users, keys, u, k, w))

OverrideOrDefault(u, k, w) ==
    IF LimitField(keys[k], w) # Null
    THEN LimitField(keys[k], w)
    ELSE LimitField(users[u], w)

C16_Step ==
    \A r \in AllReqs :
        LET u == req[r].user_id
            k == req[r].api_key_id
        IN  (req[r].pc = "rate" /\ req'[r].pc # "rate") =>
                (req'[r].pc = "preflight"
                    <=> \A w \in WindowSet :
                           PrincipalCount(u, k, w) < OverrideOrDefault(u, k, w))

C17_Step ==
    stat' # stat =>
        \A w \in WindowSet :
            stat'.ret.current_usage[w]
                = PrincipalCount(stat'.user_id, stat'.api_key_id, w)

C17_QuotaConsistency == [][C17_Step]_vars

C17_Witness ==
    /\ stat # NoStatus
    /\ stat.ret.current_usage["minute"] = 0
    /\ stat.ret.current_usage["day"] = 1
    /\ \E i, j \in DOMAIN api_usage :
          /\ ~api_usage[i].success /\ api_usage[i].api_key_id = stat.api_key_id
          /\ api_usage[i].timestamp >= now - MINUTE
          /\ api_usage[j].success /\ api_usage[j].api_key_id = stat.api_key_id

UserRows(u) == SelectSeq(token_tx, LAMBDA t : t.user_id = u)

RECURSIVE AmountSum(_, _)
AmountSum(T, i) == IF i = 0 THEN 0 ELSE T[i].amount + AmountSum(T, i - 1)

C19_RunningSumFromZero ==
    \A u \in Users :
        \A i \in 1 .. Len(UserRows(u)) :
            UserRows(u)[i].new_balance = AmountSum(UserRows(u), i)

\* ---------------------------------------------------------------- C20
\* C20: under any interleaving of purchases and debits, each row of a user's
\* ledger has the new_balance of the user's preceding row as its
\* previous_balance, and whenever no debit or purchase is in flight the
\* user's token_balance is the new_balance of the user's latest row.
LedgerQuiescent ==
    /\ Quiescent
    /\ \A p \in Purchases : pur[p].pc # "commit"

C20_Reconstruction ==
    \A u \in Users :
        LET T == UserRows(u)
        IN  /\ \A i \in 2 .. Len(T) : T[i].previous_balance = T[i - 1].new_balance
            /\ (LedgerQuiescent /\ Len(T) > 0)
                   => users[u].token_balance = T[Len(T)].new_balance

\* ---------------------------------------------------------------- C21
\* C21: in every state reached by purchases and billed requests, concurrent
\* ones of one user included, total_tokens_purchased - total_tokens_used
\* equals token_balance for every user.
C21_BalanceTrio ==
    \A u \in Users :
        users[u].total_tokens_purchased - users[u].total_tokens_used
            = users[u].token_balance

C23_OwnDebitBalance ==
    \A r \in AllReqs :
        (req[r].pc = "done" /\ req[r].status = 200 /\ req[r].success) =>
            \A i \in DebitsOf(r) : req[r].new_balance = token_tx[i].new_balance

\* C23 as amended: X-Remaining-Balance is the user's token_balance in the
\* store when the billing stage reads it back after the debit; it is the
\* balance produced by the request's own debit whenever no other debit or
\* purchase of that user has committed between the debit and the read-back.
LatestRowIsOwn(r) ==
    \A i \in DebitsOf(r) :
        \A j \in DOMAIN token_tx :
            token_tx[j].user_id = req[r].user_id => j <= i

C23_Step ==
    \A r \in AllReqs :
        (req[r].pc = "headers" /\ req'[r].pc = "log") =>
            /\ req'[r].new_balance = users[req[r].user_id].token_balance
            /\ LatestRowIsOwn(r) =>
                   \A i \in DebitsOf(r) : req'[r].new_balance = token_tx[i].new_balance

C23_ReadBackBalance == [][C23_Step]_vars

C23_Witness ==
    \E r, q \in AllReqs :
        /\ r # q /\ req[r].user_id = req[q].user_id
        /\ req[r].pc = "done" /\ req[r].status = 200 /\ req[r].success
        /\ req[q].pc = "done" /\ req[q].success
        /\ \A i \in DebitsOf(r) : req[r].new_balance = token_tx[i].new_balance
        /\ \A i \in DebitsOf(q) : req[q].new_balance # token_tx[i].new_balance

\* ---------------------------------------------------------------- C24
\* C24: on every path under a protected prefix, a request without an
\* Authorization header, with a scheme other than bearer, or with a key that
\* validate_key refuses is answered 401, is not passed on to the rate limit
\* stage, the billing stage or the handler, and gets no principal.
NoBearer(h) == ~h.present \/ h.scheme \notin {"Bearer", "bearer"}

UnderProtected(path) == \E q \in AuthProtectedPaths : StartsWith(path, q)

C24_Step ==
    \A r \in AllReqs :
        LET h == req'[r].authorization
        IN  (/\ req[r].pc = "idle" /\ req'[r].pc # "idle"
             /\ UnderProtected(req'[r].path)
             /\ \/ NoBearer(h)
                \/ validate_api_key(keys, users, h.param, now).ret = None)
            => /\ req'[r].pc = "done" /\ req'[r].status = 401
               /\ req'[r].user_id = None /\ req'[r].api_key_id = Null

C24_Rejected401 ==
    \A r \in AllReqs :
        req[r].status = 401 =>
            /\ req[r].pc = "done"
            /\ req[r].user_id = None /\ req[r].api_key_id = Null

C24_Unauthenticated401 == [](C24_Rejected401) /\ [][C24_Step]_vars

C24_Witness ==
    \E a, b \in AllReqs :
        /\ req[a].status = 401 /\ UnderProtected(req[a].path)
        /\ req[a].authorization.present /\ req[a].authorization.scheme = "Basic"
        /\ req[a].authorization.param = "pk_a"
        /\ req[b].pc = "rate" /\ req[b].bearer = "pk_a"

\* ---------------------------------------------------------------- C25
\* C25: a request to GET /auth/my-keys or DELETE /auth/revoke-key/{name}
\* without a valid bearer key is answered 401 and does not reach its handler.
KeyRoutes == {<<"/auth/", "my-keys">>, <<"/auth/", "revoke-key/", "ci">>}

C25_KeyRoutesNeedAuth ==
    \A r \in AllReqs :
        (/\ req[r].pc # "idle"
         /\ req[r].path \in KeyRoutes
         /\ NoBearer(req[r].authorization))
            => req[r].pc = "done" /\ req[r].status = 401

\* ---------------------------------------------------------------- C26
\* C26: a request on a billable path goes through authentication, the rate
\* limit check, the preflight balance read, the handler and the debit in
\* that order, and a rejection at one step (401, 429, 402, a handler answer
\* other than 2xx) keeps every later step of that request from running.
StepOrder ==
    {<<"idle", "rate">>, <<"rate", "preflight">>, <<"preflight", "handler">>,
     <<"handler", "consume">>, <<"consume", "commit">>, <<"commit", "headers">>,
     <<"headers", "log">>, <<"log", "done">>}

RejectOrder ==
    {<<"idle", 401>>, <<"rate", 429>>, <<"preflight", 402>>}

C26_Step ==
    \A r \in AllReqs :
        req'[r].pc # req[r].pc =>
            \/ /\ <<req[r].pc, req'[r].pc>> \in StepOrder
               /\ req'[r].pc # "done" => req'[r].status = 0
               /\ req'[r].pc = "consume" => req'[r].outcome = "2xx"
            \/ /\ req'[r].pc = "done" /\ <<req[r].pc, req'[r].status>> \in RejectOrder
               /\ req'[r].outcome = None
               /\ DebitsOf(r) = {} /\ UsageRowsOf(r) = {}
            \/ /\ req[r].pc \in {"handler", "consume"} /\ req'[r].pc = "log"
               /\ DebitsOf(r) = {}

C26_Ledger ==
    \A r \in AllReqs :
        /\ DebitsOf(r) # {} => req[r].outcome = "2xx" /\ req[r].user_id # None
        /\ req[r].status \in {401, 429, 402} =>
               req[r].pc = "done" /\ req[r].outcome = None /\ DebitsOf(r) = {}

C27_Step ==
    \A g \in Regs :
        (/\ reg[g].pc # "done" /\ reg'[g].pc = "done"
         /\ reg'[g].status # 400
         /\ UsernameTaken(reg'[g].username) \/ EmailTaken(reg'[g].email))
            => reg'[g].status = 409 /\ accounts' = accounts

C27_Unique ==
    \A i, j \in DOMAIN accounts :
        i # j => /\ accounts[i].username # accounts[j].username
                 /\ accounts[i].email # accounts[j].email

C27_RegisterConflict == [](C27_Unique) /\ [][C27_Step]_vars

\* ---------------------------------------------------------------- C28
\* C28: authenticate returns None for an unknown username, for an inactive
\* user and for a wrong password, and login and generate-key answer the
\* three cases with one status and one body: two calls that differ only in
\* which case applies get the same answer.
FailureCase(username, password) ==
    IF ~\E i \in DOMAIN accounts : accounts[i].username = username THEN "unknown"
    ELSE IF \E i \in DOMAIN accounts :
               accounts[i].username = username /\ ~accounts[i].is_active THEN "inactive"
    ELSE IF \E i \in DOMAIN accounts :
               /\ accounts[i].username = username
               /\ accounts[i].hashed_password # hash_password(password) THEN "mismatch"
    ELSE "none"

Authenticated(l) == login[l].pc = "done" /\ login[l].ret # "not called"

C28_SameAnswer ==
    /\ \A l \in Logins :
          Authenticated(l) =>
              (login[l].ret = None
                  <=> FailureCase(login[l].username, login[l].password) # "none")
    /\ \A a, b \in Logins :
          (/\ Authenticated(a) /\ Authenticated(b)
           /\ FailureCase(login[a].username, login[a].password) # "none"
           /\ FailureCase(login[b].username, login[b].password) # "none")
              => /\ login[a].status = login[b].status
                 /\ login[a].detail = login[b].detail

C28_Witness ==
    \E a, b \in Logins :
        /\ Authenticated(a) /\ Authenticated(b)
        /\ login[a].route = "login" /\ login[b].route = "generate-key"
        /\ FailureCase(login[a].username, login[a].password) = "unknown"
        /\ FailureCase(login[b].username, login[b].password) = "inactive"
        /\ login[a].status = 401 /\ login[b].status = 401

\* ---------------------------------------------------------------- C29
\* C29: a key created by generate_key carries its user's three limits as
\* they are at the moment of creation, and a later change of the user's
\* limits leaves the limits enforced for that key as they were.
GeneratedIds(K) == DOMAIN K \ KeyIds

C29_Step ==
    /\ \A k \in DOMAIN keys' \ DOMAIN keys :
          \A w \in WindowSet :
              LimitField(keys'[k], w) = LimitField(users[keys'[k].user_id], w)
    /\ \A k \in GeneratedIds(keys) :
          \A w \in WindowSet :
              WindowLimit(users', keys', keys[k].user_id, k, w)
                  = WindowLimit(users, keys, keys[k].user_id, k, w)

C30_Step ==
    \A p \in DOMAIN pur :
        (pur[p].pc = "commit" /\ pur'[p].pc = "done") =>
            LET uid == pur[p].user_id
                a   == pur[p].amount
            IN  /\ users'[uid].token_balance = users[uid].token_balance + a
                /\ users'[uid].total_tokens_purchased
                      = users[uid].total_tokens_purchased + a
                /\ Len(token_tx') = Len(token_tx) + 1
                /\ SubSeq(token_tx', 1, Len(token_tx)) = token_tx
                /\ LET row == token_tx'[Len(token_tx')]
                   IN  /\ row.user_id = uid
                       /\ row.transaction_type = "purchase"
                       /\ row.amount = a
                       /\ row.reference_id = pur[p].transaction_id

C30_PurchaseRecorded == [][C30_Step]_vars

\* ---------------------------------------------------------------- C31
\* C31: when the handler of a billed request raises, the billing stage
\* appends one ApiUsage row with success = false and tokens_consumed = 0,
\* performs no debit, and lets the exception leave the stage: it does not
\* turn it into a response itself.
C31_HandlerRaiseReraised ==
    \A r \in AllReqs :
        (req[r].pc = "done" /\ req[r].outcome = "raise") =>
            /\ Cardinality(UsageRowsOf(r)) = 1
            /\ \A i \in UsageRowsOf(r) :
                  ~api_usage[i].success /\ api_usage[i].tokens_consumed = 0
            /\ DebitsOf(r) = {}
            /\ req[r].propagated
            /\ req[r].detail = None

\* ---------------------------------------------------------------- C32
\* C32: whenever a store error during a billed request makes the response a
\* 5xx, no debit is committed for that request, wherever in the billing
\* stage the error occurs: the ledger has no usage transaction of it.
C32_StoreErrorNoDebit ==
    \A r \in AllReqs :
        (req[r].pc = "done" /\ req[r].error = "store" /\ req[r].status >= 500) =>
            DebitsOf(r) = {}

\* ---------------------------------------------------------------- C33
\* C33: every request rejected by a middleware stage (401 by authentication,
\* 429 by rate limiting, 402 by billing) has an ApiUsage row with
\* success = false and a short reason.
RejectStatuses == {401, 429, 402}

C33_RejectionsLogged ==
    \A r \in AllReqs :
        (req[r].pc = "done" /\ req[r].status \in RejectStatuses) =>
            \E i \in UsageRowsOf(r) :
                ~api_usage[i].success /\ api_usage[i].error_message # None

\* ---------------------------------------------------------------- C34
\* C34: usage_stats(user, days) counts in total_requests,
\* total_tokens_consumed and endpoint_breakdown only the user's ApiUsage rows
\* with success = true whose timestamp lies within the last `days` days.
SuccessfulInWindow(user_id, days, t) ==
    {i \in DOMAIN api_usage :
        /\ api_usage[i].user_id = user_id
        /\ api_usage[i].success
        /\ api_usage[i].timestamp >= t - days * DAY}

C34_OnlySuccessfulCounted ==
    stat # NoStatus =>
        LET S == SuccessfulInWindow(stat.user_id, stat.ret.period_days, stat.at)
        IN  /\ stat.ret.total_requests = Cardinality(S)
            /\ stat.ret.total_tokens_consumed = TokensOver(api_usage, S)
            /\ \A e \in stat.ret.endpoint_breakdown :
                  e.requests = Cardinality(S) /\ e.tokens = TokensOver(api_usage, S)

\* ---------------------------------------------------------------- C35
\* C35: no operation updates or deletes an existing ApiUsage or
\* TokenTransaction row: in every step each row present before the step is
\* present after it with the same field values.
C35_Step ==
    /\ \A i \in DOMAIN api_usage :
          i \in DOMAIN api_usage' /\ api_usage'[i] = api_usage[i]
    /\ \A i \in DOMAIN token_tx :
          i \in DOMAIN token_tx' /\ token_tx'[i] = token_tx[i]

C35_RowsImmutable == [][C35_Step]_vars

\* rows of both tables were in the store when later rows were written
C35_Witness ==
    /\ Len(api_usage) >= 3
    /\ Len(token_tx) >= 2
    /\ \E i \in DOMAIN token_tx : token_tx[i].transaction_type = "purchase"
    /\ \E i \in DOMAIN token_tx : token_tx[i].transaction_type = "usage"

\* ---------------------------------------------------------------- C36
\* C36: in every reachable state no stored field of any table equals a
\* plaintext API key: the plaintext is returned only by the generate_key
\* call that minted it, and only its hash is written to the store.
\* the text columns of the five tables (the hash columns are taken apart
\* below)
StoredText ==
    DOMAIN users
    \cup {keys[k].user_id : k \in DOMAIN keys}
    \cup {keys[k].name : k \in DOMAIN keys}
    \cup {accounts[i].username : i \in DOMAIN accounts}
    \cup {accounts[i].email : i \in DOMAIN accounts}
    \cup {api_usage[i].user_id : i \in DOMAIN api_usage}
    \cup {api_usage[i].error_message : i \in DOMAIN api_usage}
    \cup {token_tx[i].user_id : i \in DOMAIN token_tx}
    \cup {token_tx[i].transaction_type : i \in DOMAIN token_tx}

C36_NoPlaintextStored ==
    /\ StoredText \cap AllPlaintexts = {}
    /\ \A k \in DOMAIN keys :
          \E p \in AllPlaintexts : keys[k].hashed_key = hash_api_key(p)
    /\ \A l \in Logins :
          login[l].api_key # None =>
              /\ login[l].route = "generate-key" /\ login[l].status = 200
              /\ \E k \in DOMAIN keys \ KeyIds :
                    keys[k].hashed_key = hash_api_key(login[l].api_key)
              /\ \A m \in Logins \ {l} : login[m].api_key # login[l].api_key

C36_Witness ==
    /\ Cardinality(DOMAIN keys \ KeyIds) = 1
    /\ \E l, m \in Logins :
          /\ login[l].api_key \in AllPlaintexts
          /\ login[m].route = "login" /\ login[m].status = 200

\* ---------------------------------------------------------------- C37
\* C37 (as stated): under concurrent requests of the same principal, the
\* requests that passed the rate-limit stage and are recorded as successful
\* with timestamps inside one 60 s window never number more than
\* requests_per_minute.
RecordedIn(user_id, api_key_id, t) ==
    {r \in AllReqs :
        \E i \in UsageRowsOf(r) :
            /\ api_usage[i].success
            /\ api_usage[i].user_id = user_id
            /\ api_usage[i].api_key_id = api_key_id
            /\ api_usage[i].timestamp > t - MINUTE
            /\ api_usage[i].timestamp <= t}

C37_NoOvershoot ==
    \A i \in DOMAIN api_usage :
        Cardinality(RecordedIn(keys[RaceKey].user_id, RaceKey, api_usage[i].timestamp))
            <= WindowLimit(users, keys, keys[RaceKey].user_id, RaceKey, "minute")

\* C37 (amended): a request passes the rate-limit stage exactly when, at the
\* moment of its check, the principal's committed successful ApiUsage rows
\* in each window number fewer than the window's limit; requests in flight
\* between their check and their usage record are not counted.
BelowLimits(user_id, api_key_id, t) ==
    \A w \in WindowSet :
        Cardinality({i \in DOMAIN api_usage :
            /\ api_usage[i].user_id = user_id
            /\ api_usage[i].api_key_id = api_key_id
            /\ api_usage[i].success
            /\ api_usage[i].timestamp >= t - Duration(w)})
          < WindowLimit(users, keys, user_id, api_key_id, w)

C37_Step ==
    \A r \in AllReqs :
        (req[r].pc = "rate" /\ req'[r].pc # "rate") =>
            IF BelowLimits(req[r].user_id, req[r].api_key_id, now)
            THEN req'[r].pc = "preflight"
            ELSE req'[r].pc = "done" /\ req'[r].status = 429

C37_CommittedRowsCounted == [][C37_Step]_vars

\* two requests of the principal passed under a limit of 1 while the other
\* was in flight, and both are recorded as successful in one window
C37_Witness ==
    /\ WindowLimit(users, keys, keys[RaceKey].user_id, RaceKey, "minute") = 1
    /\ \A r \in RaceReqs :
          /\ req[r].pc = "done" /\ req[r].status = 200
          /\ \E i \in UsageRowsOf(r) : api_usage[i].success
    /\ \E i \in DOMAIN api_usage :
          Cardinality(RecordedIn(keys[RaceKey].user_id, RaceKey, api_usage[i].timestamp)) = 2

\* ---------------------------------------------------------------- C38
\* C38: in every quiescent state, for every user, the sum of tokens_consumed
\* over the user's ApiUsage rows equals the user's total_tokens_used, which
\* equals minus the sum of amount over the user's usage TokenTransactions.
UsageRowsOfUser(u) == {i \in DOMAIN api_usage : api_usage[i].user_id = u}

C38_UsageMatchesDebits ==
    Quiescent =>
        \A u \in Users :
            /\ TokensOver(api_usage, UsageRowsOfUser(u)) = users[u].total_tokens_used
            /\ users[u].total_tokens_used = DebitedSum(token_tx, u)

\* ---------------------------------------------------------------- C39
\* C39: no operation changes a key's is_active from false to true: a key
\* deactivated by expiry discovery or by revoke is inactive in every later
\* state, and validate_key on it never again returns a user_id or updates
\* its last_used.
C39_Step ==
    /\ \A k \in DOMAIN keys :
          ~keys[k].is_active =>
              /\ k \in DOMAIN keys'
              /\ ~keys'[k].is_active
              /\ keys'[k].last_used = keys[k].last_used
    /\ \A r \in AllReqs :
          (Presents(r) /\ \E k \in DOMAIN keys :
                             /\ ~keys[k].is_active
                             /\ keys[k].hashed_key = hash_api_key(req'[r].bearer))
          => /\ req'[r].pc = "done" /\ req'[r].status = 401
             /\ req'[r].user_id = None

C39_NeverReactivated == [][C39_Step]_vars

\* a revoked key and an expired key are inactive, the revoked key was
\* presented afterwards and refused, and its user has since generated a key
\* of the same name
C39_Witness ==
    /\ \E k \in KeyIds :
          /\ keys[k].expires_at = Null /\ ~keys[k].is_active
          /\ \E r \in AllReqs :
                /\ req[r].pc = "done" /\ req[r].status = 401
                /\ keys[k].hashed_key = hash_api_key(req[r].bearer)
          /\ \E g \in DOMAIN keys \ KeyIds :
                /\ keys[g].name = keys[k].name /\ keys[g].user_id = keys[k].user_id
                /\ keys[g].is_active
    /\ \E k \in KeyIds : keys[k].expires_at # Null /\ ~keys[k].is_active

====
